---- MODULE Spec2Model ----
(***************************************************************************)
(* Model of machina/algos/mpc.py: update_dm (one optimisation step of the  *)
(* dynamics model) and train_dm (the epoch / step loop that draws a batch  *)
(* from the on-policy and the random trajectory, merges the two and calls  *)
(* update_dm).                                                             *)
(*                                                                         *)
(* Python floats are IEEE 754 binary64 values.  A positive float is the    *)
(* record [zero |-> FALSE, m |-> bits, e |-> exponent]: m is the 53-bit    *)
(* significand, most significant bit first (m[1] = 1), and the value is    *)
(* 1.m[2]m[3]...m[53] * 2^e.                                               *)
(***************************************************************************)
EXTENDS Integers, Sequences, FiniteSets, TLC

\* ------------------------------------------------------------------ bounds
\* Largest batch_size, epoch and num_step of the enumerated arguments.
MaxBatch == 2
MaxEpoch == 2
MaxNumStep == 2
\* Number of distinct index vectors one random_batch draw chooses among.
MaxStart == 2
\* Largest batch_size and largest rate denominator of the split check.
MaxSplitBatch == 12
MaxRateDen == 10

\* ------------------------------------------------- binary64 arithmetic
\* Width of the significand of a Python float.
MantBits == 53

FZero == [zero |-> TRUE, m |-> <<>>, e |-> 0]

\* The smallest k >= 0 with n * 2^k >= d  (n >= 1).
RECURSIVE NormShift(_, _)
NormShift(n, d) == IF n >= d THEN 0 ELSE 1 + NormShift(2 * n, d)

RECURSIVE Pow2(_)
Pow2(k) == IF k = 0 THEN 1 ELSE 2 * Pow2(k - 1)

\* 2^k mod d.
RECURSIVE Pow2Mod(_, _)
Pow2Mod(k, d) ==
    IF k = 0 THEN 1 % d
    ELSE LET h == Pow2Mod(k \div 2, d)
         IN  (((h * h) % d) * (IF k % 2 = 1 THEN 2 ELSE 1)) % d

\* Long division of r0/d (r0 < d): the remainder left after k quotient bits.
DivRem(r0, d, k) == (r0 * Pow2Mod(k, d)) % d

\* The k-th quotient bit of r0/d (k >= 1).
DivBit(r0, d, k) == IF 2 * DivRem(r0, d, k - 1) >= d THEN 1 ELSE 0

\* The significand plus one unit in the last place, renormalised.
FRoundUp(bits, ex) ==
    LET zeros == {i \in 1..Len(bits) : bits[i] = 0}
    IN  IF zeros = {}
        THEN [zero |-> FALSE, m |-> [i \in 1..Len(bits) |-> IF i = 1 THEN 1 ELSE 0], e |-> ex + 1]
        ELSE LET j == CHOOSE x \in zeros : \A y \in zeros : y <= x
             IN  [zero |-> FALSE,
                  m    |-> [i \in 1..Len(bits) |-> IF i < j THEN bits[i] ELSE IF i = j THEN 1 ELSE 0],
                  e    |-> ex]

\* The float nearest to n/d (round to nearest, ties to even), 0 <= n <= d:
\* the value of a literal such as 0.9 or 0.33.
FloatOfRatio(n, d) ==
    IF n = 0 THEN FZero
    ELSE LET k    == NormShift(n, d)
             r0   == n * Pow2(k) - d
             bits == [i \in 1..MantBits |-> IF i = 1 THEN 1 ELSE DivBit(r0, d, i - 1)]
             rem  == DivRem(r0, d, MantBits - 1)
             up   == (2 * rem > d) \/ (2 * rem = d /\ bits[MantBits] = 1)
         IN  IF up THEN FRoundUp(bits, -k)
             ELSE [zero |-> FALSE, m |-> bits, e |-> -k]

\* The binary digits of c, most significant first (none for 0).
RECURSIVE BinDigits(_)
BinDigits(c) == IF c = 0 THEN <<>> ELSE Append(BinDigits(c \div 2), c % 2)

RECURSIVE BitsToInt(_, _)
BitsToInt(bits, k) == IF k = 0 THEN 0 ELSE 2 * BitsToInt(bits, k - 1) + bits[k]

\* The w lowest binary digits of v, most significant first.
IntToBits(v, w) == [i \in 1..w |-> (v \div Pow2(w - i)) % 2]

\* The exact product bits * b, in binary, most significant digit first; the
\* significand is multiplied in limbs of w bits, least significant limb first.
RECURSIVE MulLimbs(_, _, _, _, _, _)
MulLimbs(bits, hi, b, w, carry, acc) ==
    IF hi = 0 THEN BinDigits(carry) \o acc
    ELSE LET lo == IF hi > w THEN hi - w + 1 ELSE 1
             t  == BitsToInt(SubSeq(bits, lo, hi), hi - lo + 1) * b + carry
             m  == Pow2(hi - lo + 1)
         IN  MulLimbs(bits, lo - 1, b, w, t \div m, IntToBits(t % m, hi - lo + 1) \o acc)

AnyOne(s) == \E i \in 1..Len(s) : s[i] = 1

\* int * float: the exact product rounded to the nearest float, ties to even.
FloatMulInt(b, f) ==
    IF b = 0 \/ f.zero THEN FZero
    ELSE LET all     == MulLimbs(f.m, MantBits, b, 13, 0, <<>>)
             L       == Len(all) - MantBits
             kept    == SubSeq(all, 1, MantBits)
             dropped == SubSeq(all, MantBits + 1, MantBits + L)
             up      == /\ L > 0
                        /\ dropped[1] = 1
                        /\ (AnyOne(SubSeq(dropped, 2, L)) \/ kept[MantBits] = 1)
         IN  IF up THEN FRoundUp(kept, f.e + L)
             ELSE [zero |-> FALSE, m |-> kept, e |-> f.e + L]

\* int(f) for f >= 0: truncation toward zero.
FloatToInt(f) ==
    IF f.zero \/ f.e < 0 THEN 0
    ELSE BitsToInt(f.m, f.e + 1)

\* A variant of line 53 that rounds the product up instead of truncating it.
SplitRlCeil(bs, rate) == (bs * rate[1] + rate[2] - 1) \div rate[2]

\* Line 53: int(batch_size * rl_batch_rate), the rate given as <<n, d>>.
SplitRl(bs, rate) == FloatToInt(FloatMulInt(bs, FloatOfRatio(rate[1], rate[2])))

\* Line 54: batch_size - batch_size_rl.
SplitRand(bs, rl) == bs - rl


\* ------------------------------------------------------------ the program
VARIABLES
    \* arguments of train_dm (line 24)
    rl_traj, rand_traj, epoch, batch_size, rl_batch_rate, target, td,
    \* how the external trajectory source represents a batch of size zero
    empty_kind,
    \* dyn_model: number of optimizer steps applied to its parameters;
    \* optim_dm: the optimizer (gradient buffer and step count)
    dyn_model, optim_dm,
    \* locals of train_dm
    batch_size_rl, batch_size_rand, dm_losses, step, e,
    gen_rl, gen_rand, rl_batch, rand_batch, batch, dm_loss,
    \* local of update_dm: the loss tensor of line 16
    upd_loss,
    \* control
    pc, error, result,
    \* history: the calls made to random_batch, the steps of the running
    \* update_dm call, the values update_dm returned, pairs drawn and
    \* update_dm calls so far
    rb_calls, upd_trace, upd_log, n_pairs, n_calls

args == <<rl_traj, rand_traj, epoch, batch_size, rl_batch_rate, target, td, empty_kind>>
locals == <<batch_size_rl, batch_size_rand, dm_losses, step, e,
            gen_rl, gen_rand, rl_batch, rand_batch, batch, dm_loss, upd_loss>>
hist == <<rb_calls, upd_trace, upd_log, n_pairs, n_calls>>
vars == <<args, dyn_model, optim_dm, locals, pc, error, result, hist>>

NoInt == 0 - 1
NoDict == <<>>
NoGen == [size |-> NoInt, left |-> 0]

Fields == {"obs", "acs", "next_obs", "rews"}
Targets == {"next_obs", "rews"}

Min(a, b) == IF a <= b THEN a ELSE b
Len0(b) == Cardinality(DOMAIN b)

\* Feature dimension of a field of a trajectory's tensors.
FieldDim(traj, f) ==
    IF f \in {"obs", "next_obs"} THEN traj.obs_dim
    ELSE IF f = "acs" THEN 1 ELSE 0

\* One batch of a trajectory source: size samples, sample i being transition
\* ((s + i - 2) mod num_step) + 1 of the source; s is the random choice.
RandomBatchOnce(traj, size, s) ==
    IF size = 0 /\ empty_kind = "no_fields" THEN NoDict
    ELSE [f \in Fields |->
            [d    |-> FieldDim(traj, f),
             rows |-> [i \in 1..size |-> <<traj.name, f, ((s + i - 2) % traj.num_step) + 1>>]]]

\* torch.cat([a, b], dim=0)
CatOk(a, b) == a.d = b.d
Cat(a, b) == [d |-> a.d, rows |-> a.rows \o b.rows]

MergedFields == {"obs", "acs", "next_obs"}

\* A variant of lines 65-80 that concatenates the on-policy samples first.
MergeBatchRlFirst(rl_b, rand_b) ==
    IF Len0(rl_b) = 0
    THEN [err |-> "none", batch |-> [f \in MergedFields |-> rand_b[f]]]
    ELSE IF Len0(rand_b) = 0
    THEN [err |-> "none", batch |-> [f \in MergedFields |-> rl_b[f]]]
    ELSE IF \A f \in MergedFields : CatOk(rand_b[f], rl_b[f])
         THEN [err |-> "none", batch |-> [f \in MergedFields |-> Cat(rl_b[f], rand_b[f])]]
         ELSE [err |-> "RuntimeError", batch |-> NoDict]

\* Lines 65-80: the merged batch, or the exception the merge raises.
MergeBatch(rl_b, rand_b) ==
    IF Len0(rl_b) = 0
    THEN IF MergedFields \subseteq DOMAIN rand_b
         THEN [err |-> "none", batch |-> [f \in MergedFields |-> rand_b[f]]]
         ELSE [err |-> "KeyError", batch |-> NoDict]
    ELSE IF Len0(rand_b) = 0
    THEN IF MergedFields \subseteq DOMAIN rl_b
         THEN [err |-> "none", batch |-> [f \in MergedFields |-> rl_b[f]]]
         ELSE [err |-> "KeyError", batch |-> NoDict]
    ELSE IF ~(MergedFields \subseteq DOMAIN rand_b /\ MergedFields \subseteq DOMAIN rl_b)
         THEN [err |-> "KeyError", batch |-> NoDict]
    ELSE IF \A f \in MergedFields : CatOk(rand_b[f], rl_b[f])
         THEN [err |-> "none", batch |-> [f \in MergedFields |-> Cat(rand_b[f], rl_b[f])]]
         ELSE [err |-> "RuntimeError", batch |-> NoDict]

\* lf.dynamics(dm, batch, target, td): reads obs, acs and the target field.
DynamicsNeeds(tg) == {"obs", "acs", tg}
DynamicsOk(b, tg) == DynamicsNeeds(tg) \subseteq DOMAIN b
Dynamics(dm, b, tg, t) ==
    [theta |-> dm, n |-> Len(b["obs"].rows), target |-> tg, td |-> t, grad_fn |-> TRUE]

\* dm_loss.detach().cpu().numpy()  (line 21)
DetachNumpy(loss) == [theta |-> loss.theta, n |-> loss.n, target |-> loss.target, td |-> loss.td]

NoLoss == [theta |-> NoInt]

\* ------------------------------------------------------------------ inputs
Traj(nm, n, dim) == [name |-> nm, num_step |-> n, obs_dim |-> dim]

Rates == {<<0, 1>>, <<1, 2>>, <<1, 1>>}
EmptyKinds == {"no_fields", "empty_fields"}

\* The end-to-end example: num_step 1000 and 100, batch_size 512, rate 0.9.
ExampleRun ==
    /\ rl_traj = Traj("rl", 100, 1)
    /\ rand_traj = Traj("rand", 1000, 1)
    /\ epoch = 2
    /\ batch_size = 512
    /\ rl_batch_rate = <<9, 10>>
    /\ target = "next_obs"
    /\ td = TRUE

SmallRun ==
    /\ rl_traj \in {Traj("rl", n, 1) : n \in 1..MaxNumStep}
    /\ rand_traj \in {Traj("rand", n, dim) : n \in 1..MaxNumStep, dim \in 1..2}
    /\ epoch \in 0..MaxEpoch
    /\ batch_size \in 0..MaxBatch
    /\ rl_batch_rate \in Rates
    /\ target \in Targets
    /\ td \in BOOLEAN

\* The state at the entry of train_dm, the arguments excepted.
Entry ==
    /\ dyn_model = 0
    /\ optim_dm = [grad |-> "stale", steps |-> 0]
    /\ batch_size_rl = NoInt
    /\ batch_size_rand = NoInt
    /\ dm_losses = <<>>
    /\ step = NoInt
    /\ e = NoInt
    /\ gen_rl = NoGen
    /\ gen_rand = NoGen
    /\ rl_batch = NoDict
    /\ rand_batch = NoDict
    /\ batch = NoDict
    /\ dm_loss = NoLoss
    /\ upd_loss = NoLoss
    /\ pc = "start"
    /\ error = "none"
    /\ result = NoDict
    /\ rb_calls = <<>>
    /\ upd_trace = <<>>
    /\ upd_log = <<>>
    /\ n_pairs = 0
    /\ n_calls = 0

Init ==
    /\ SmallRun \/ ExampleRun
    /\ empty_kind \in EmptyKinds
    /\ Entry

\* ----------------------------------------------------------------- train_dm
\* A variant in which the loop catches the exception and goes on.
RaiseAndContinue(exc) ==
    /\ pc' = "zip"
    /\ error' = exc

\* An exception leaves train_dm: no statement of lines 53-87 handles it.
Raise(exc) ==
    /\ pc' = "raised"
    /\ error' = exc

\* Lines 53-57: the two sub-batch sizes and the empty loss list.
TrainSplit ==
    /\ pc = "start"
    /\ batch_size_rl' = SplitRl(batch_size, rl_batch_rate)
    /\ batch_size_rand' = SplitRand(batch_size, batch_size_rl')
    /\ dm_losses' = <<>>
    /\ pc' = "steps"
    /\ UNCHANGED <<args, dyn_model, optim_dm, step, e, gen_rl, gen_rand, rl_batch,
                   rand_batch, batch, dm_loss, upd_loss, error, result, hist>>

\* A variant of lines 58-61 that always divides the on-policy num_step.
StepDividendRl(rl_n, rand_n, size_rl, size_rand) == rl_n

\* A variant of lines 58-61 that guards the division.
StepDivisorGuarded(size_rl, size_rand) ==
    IF size_rand > 0 THEN size_rand ELSE IF size_rl > 0 THEN size_rl ELSE 1

\* Lines 58-61: which num_step is divided by which sub-batch size.
StepDividend(rl_n, rand_n, size_rl, size_rand) == IF size_rand > 0 THEN rand_n ELSE rl_n
StepDivisor(size_rl, size_rand) == IF size_rand > 0 THEN size_rand ELSE size_rl

ComputeStep ==
    /\ pc = "steps"
    /\ LET a == StepDividend(rl_traj.num_step, rand_traj.num_step, batch_size_rl, batch_size_rand)
           b == StepDivisor(batch_size_rl, batch_size_rand)
       IN  IF b = 0
           THEN /\ Raise("ZeroDivisionError")
                /\ UNCHANGED step
           ELSE /\ step' = a \div b
                /\ pc' = "epoch"
                /\ UNCHANGED error
    /\ UNCHANGED <<args, dyn_model, optim_dm, batch_size_rl, batch_size_rand, dm_losses, e,
                   gen_rl, gen_rand, rl_batch, rand_batch, batch, dm_loss, upd_loss,
                   result, hist>>

\* traj.random_batch(batch_size, step): a generator of step batches.
RandomBatch(size, num) == [size |-> size, left |-> num]

\* Lines 63-64: the next epoch calls random_batch on both sources.
EpochStart ==
    /\ pc = "epoch"
    /\ e + 1 < epoch
    /\ e' = e + 1
    /\ gen_rl' = RandomBatch(batch_size_rl, step)
    /\ gen_rand' = RandomBatch(batch_size_rand, step)
    /\ rb_calls' = rb_calls \o << [src |-> "rl", size |-> batch_size_rl, num |-> step],
                                  [src |-> "rand", size |-> batch_size_rand, num |-> step] >>
    /\ pc' = "zip"
    /\ UNCHANGED <<args, dyn_model, optim_dm, batch_size_rl, batch_size_rand, dm_losses, step,
                   rl_batch, rand_batch, batch, dm_loss, upd_loss, error, result,
                   upd_trace, upd_log, n_pairs, n_calls>>

\* A variant in which the return statement sits inside the epoch loop.
EpochsDoneEarly ==
    /\ pc = "epoch"
    /\ e >= 0 \/ ~(e + 1 < epoch)
    /\ pc' = "return"
    /\ UNCHANGED <<args, dyn_model, optim_dm, locals, error, result, hist>>

\* Line 63: no epoch is left.
EpochsDone ==
    /\ pc = "epoch"
    /\ ~(e + 1 < epoch)
    /\ pc' = "return"
    /\ UNCHANGED <<args, dyn_model, optim_dm, locals, error, result, hist>>

\* Line 64: zip takes the next batch of each generator, the on-policy one first.
ZipDraw ==
    /\ pc = "zip"
    /\ gen_rl.left > 0
    /\ gen_rand.left > 0
    /\ \E s1 \in 1..Min(MaxStart, rl_traj.num_step), s2 \in 1..Min(MaxStart, rand_traj.num_step) :
          /\ rl_batch' = RandomBatchOnce(rl_traj, gen_rl.size, s1)
          /\ rand_batch' = RandomBatchOnce(rand_traj, gen_rand.size, s2)
    /\ gen_rl' = [gen_rl EXCEPT !.left = @ - 1]
    /\ gen_rand' = [gen_rand EXCEPT !.left = @ - 1]
    /\ n_pairs' = n_pairs + 1
    /\ pc' = "merge"
    /\ UNCHANGED <<args, dyn_model, optim_dm, batch_size_rl, batch_size_rand, dm_losses, step, e,
                   batch, dm_loss, upd_loss, error, result, rb_calls, upd_trace, upd_log, n_calls>>

\* Line 64: zip ends with the first exhausted generator.
ZipExhausted ==
    /\ pc = "zip"
    /\ gen_rl.left = 0 \/ gen_rand.left = 0
    /\ gen_rl' = IF gen_rl.left > 0 THEN [gen_rl EXCEPT !.left = @ - 1] ELSE gen_rl
    /\ pc' = "epoch"
    /\ UNCHANGED <<args, dyn_model, optim_dm, batch_size_rl, batch_size_rand, dm_losses, step, e,
                   gen_rand, rl_batch, rand_batch, batch, dm_loss, upd_loss, error, result, hist>>

\* Lines 65-80.
Merge ==
    /\ pc = "merge"
    /\ LET m == MergeBatch(rl_batch, rand_batch)
       IN  IF m.err = "none"
           THEN /\ batch' = m.batch
                /\ pc' = "update_dm"
                /\ UNCHANGED error
           ELSE /\ Raise(m.err)
                /\ batch' = NoDict
    /\ UNCHANGED <<args, dyn_model, optim_dm, batch_size_rl, batch_size_rand, dm_losses, step, e,
                   gen_rl, gen_rand, rl_batch, rand_batch, dm_loss, upd_loss, result, hist>>

\* ---------------------------------------------------------------- update_dm
\* Line 16 (called at lines 82-83): the loss of the batch under the current
\* parameters; a batch without a field the loss reads raises KeyError.
UpdLoss ==
    /\ pc = "update_dm"
    /\ n_calls' = n_calls + 1
    /\ upd_trace' = <<"loss">>
    /\ IF DynamicsOk(batch, target)
       THEN /\ upd_loss' = Dynamics(dyn_model, batch, target, td)
            /\ pc' = "zero_grad"
            /\ UNCHANGED error
       ELSE /\ Raise("KeyError")
            /\ UNCHANGED upd_loss
    /\ UNCHANGED <<args, dyn_model, optim_dm, batch_size_rl, batch_size_rand, dm_losses, step, e,
                   gen_rl, gen_rand, rl_batch, rand_batch, batch, dm_loss, result,
                   rb_calls, upd_log, n_pairs>>

\* Line 16: the model evaluation itself fails.
UpdLossFails ==
    /\ pc = "update_dm"
    /\ n_calls' = n_calls + 1
    /\ upd_trace' = <<"loss">>
    /\ Raise("RuntimeError")
    /\ UNCHANGED <<args, dyn_model, optim_dm, locals, result, rb_calls, upd_log, n_pairs>>

\* Line 17.
UpdZeroGrad ==
    /\ pc = "zero_grad"
    /\ optim_dm' = [optim_dm EXCEPT !.grad = "zero"]
    /\ upd_trace' = Append(upd_trace, "zero_grad")
    /\ pc' = "backward"
    /\ UNCHANGED <<args, dyn_model, locals, error, result, rb_calls, upd_log, n_pairs, n_calls>>

\* Line 18: the gradient of the loss is added to the gradient buffer.
UpdBackward ==
    /\ pc = "backward"
    /\ optim_dm' = [optim_dm EXCEPT !.grad = IF @ = "zero" THEN "fresh" ELSE "mixed"]
    /\ upd_trace' = Append(upd_trace, "backward")
    /\ pc' = "optim_step"
    /\ UNCHANGED <<args, dyn_model, locals, error, result, rb_calls, upd_log, n_pairs, n_calls>>

\* Line 19: one optimizer step changes the parameters of the model.
UpdStep ==
    /\ pc = "optim_step"
    /\ optim_dm' = [optim_dm EXCEPT !.steps = @ + 1]
    /\ dyn_model' = dyn_model + 1
    /\ upd_trace' = Append(upd_trace, "step")
    /\ pc' = "upd_return"
    /\ UNCHANGED <<args, locals, error, result, rb_calls, upd_log, n_pairs, n_calls>>

\* A variant of line 21 that evaluates the loss again after the optimizer step.
UpdReturnRecomputed ==
    /\ pc = "upd_return"
    /\ dm_loss' = DetachNumpy(Dynamics(dyn_model, batch, target, td))
    /\ upd_log' = Append(upd_log, dm_loss')
    /\ upd_trace' = Append(upd_trace, "return")
    /\ pc' = "append"
    /\ UNCHANGED <<args, dyn_model, optim_dm, batch_size_rl, batch_size_rand, dm_losses, step, e,
                   gen_rl, gen_rand, rl_batch, rand_batch, batch, upd_loss, error, result,
                   rb_calls, n_pairs, n_calls>>

\* Line 21 (and the assignment of line 82).
UpdReturn ==
    /\ pc = "upd_return"
    /\ dm_loss' = DetachNumpy(upd_loss)
    /\ upd_log' = Append(upd_log, dm_loss')
    /\ upd_trace' = Append(upd_trace, "return")
    /\ pc' = "append"
    /\ UNCHANGED <<args, dyn_model, optim_dm, batch_size_rl, batch_size_rand, dm_losses, step, e,
                   gen_rl, gen_rand, rl_batch, rand_batch, batch, upd_loss, error, result,
                   rb_calls, n_pairs, n_calls>>

\* A variant of line 84 that puts the newest loss first.
AppendLossFront ==
    /\ pc = "append"
    /\ dm_losses' = <<dm_loss>> \o dm_losses
    /\ pc' = "zip"
    /\ UNCHANGED <<args, dyn_model, optim_dm, batch_size_rl, batch_size_rand, step, e,
                   gen_rl, gen_rand, rl_batch, rand_batch, batch, dm_loss, upd_loss, error,
                   result, hist>>

\* Line 84.
AppendLoss ==
    /\ pc = "append"
    /\ dm_losses' = Append(dm_losses, dm_loss)
    /\ pc' = "zip"
    /\ UNCHANGED <<args, dyn_model, optim_dm, batch_size_rl, batch_size_rand, step, e,
                   gen_rl, gen_rand, rl_batch, rand_batch, batch, dm_loss, upd_loss, error,
                   result, hist>>

\* Lines 85-87.
Return ==
    /\ pc = "return"
    /\ result' = [DynModelLoss |-> dm_losses]
    /\ pc' = "done"
    /\ UNCHANGED <<args, dyn_model, optim_dm, locals, error, hist>>

Next ==
    \/ TrainSplit
    \/ ComputeStep
    \/ EpochStart
    \/ EpochsDone
    \/ ZipDraw
    \/ ZipExhausted
    \/ Merge
    \/ UpdLoss
    \/ UpdLossFails
    \/ UpdZeroGrad
    \/ UpdBackward
    \/ UpdStep
    \/ UpdReturn
    \/ AppendLoss
    \/ Return

Spec == Init /\ [][Next]_vars

\* --------------------------------------------- the split alone (lines 53-54)
ExampleBatchSizes == {100, 512}
ExampleRates == {<<33, 100>>, <<29, 100>>, <<57, 100>>}
SplitRates == {<<n, d>> \in (0..MaxRateDen) \X (1..MaxRateDen) : n <= d} \cup ExampleRates

InitSplit ==
    /\ rl_traj = Traj("rl", 1, 1)
    /\ rand_traj = Traj("rand", 1, 1)
    /\ epoch = 1
    /\ batch_size \in (0..MaxSplitBatch) \cup ExampleBatchSizes
    /\ rl_batch_rate \in SplitRates
    /\ target = "next_obs"
    /\ td = TRUE
    /\ empty_kind = "empty_fields"
    /\ Entry

NextSplit == TrainSplit

SpecSplit == InitSplit /\ [][NextSplit]_vars

\* ------------------------------------------------------------------ claims
IsPow2(d) == \E k \in 0..30 : d = Pow2(k)

\* C1: once train_dm has split batch_size, the on-policy sub-size is the
\* truncated double-precision product batch_size * rl_batch_rate and the random
\* sub-size is the rest: both are >= 0 and sum to batch_size; the on-policy
\* sub-size is the floor of the exact product whenever that product is not an
\* integer or the rate is a binary fraction, and never more than one below it;
\* 100 at 0.9 gives 90 and 10, 10 at 0.33 gives 3 and 7, 512 at 0.9 gives 460
\* and 52.
C1_Split ==
    pc # "start" =>
        LET n == rl_batch_rate[1]
            d == rl_batch_rate[2]
            q == (batch_size * n) \div d
        IN  /\ batch_size_rl = FloatToInt(FloatMulInt(batch_size, FloatOfRatio(n, d)))
            /\ batch_size_rl + batch_size_rand = batch_size
            /\ batch_size_rl >= 0
            /\ batch_size_rand >= 0
            /\ batch_size_rl \in {q - 1, q}
            /\ ((batch_size * n) % d # 0 \/ IsPow2(d)) => batch_size_rl = q
            /\ (batch_size = 100 /\ rl_batch_rate = <<9, 10>>)
                   => (batch_size_rl = 90 /\ batch_size_rand = 10)
            /\ (batch_size = 10 /\ rl_batch_rate = <<33, 100>>)
                   => (batch_size_rl = 3 /\ batch_size_rand = 7)
            /\ (batch_size = 512 /\ rl_batch_rate = <<9, 10>>)
                   => (batch_size_rl = 460 /\ batch_size_rand = 52)

\* A non-exact rate has been split: 10 at 0.33.
C1_Witness ==
    /\ pc = "steps"
    /\ batch_size = 10
    /\ rl_batch_rate = <<33, 100>>
    /\ batch_size_rl = 3
    /\ batch_size_rand = 7

\* C2: the steps per epoch are rand_traj.num_step // batch_size_rand when the
\* random sub-size is positive and rl_traj.num_step // batch_size_rl otherwise;
\* the value is there before the first epoch, and every epoch passes it, with
\* the source's own sub-size, to random_batch of both sources.
ExpectedStep ==
    IF batch_size_rand > 0 THEN rand_traj.num_step \div batch_size_rand
    ELSE rl_traj.num_step \div batch_size_rl

C2_Steps ==
    /\ pc \in {"start", "steps"} => (step = NoInt /\ rb_calls = <<>>)
    /\ (pc \notin {"start", "steps"} /\ error # "ZeroDivisionError") => step = ExpectedStep
    /\ Len(rb_calls) = 2 * (e + 1)
    /\ \A i \in 1..Len(rb_calls) :
          /\ rb_calls[i].num = ExpectedStep
          /\ rb_calls[i].src = (IF i % 2 = 1 THEN "rl" ELSE "rand")
          /\ rb_calls[i].size = (IF i % 2 = 1 THEN batch_size_rl ELSE batch_size_rand)

\* The second epoch has called random_batch, the sources differing in num_step.
C2_Witness ==
    /\ Len(rb_calls) = 4
    /\ batch_size_rand > 0
    /\ batch_size_rl > 0
    /\ rand_traj.num_step # rl_traj.num_step
    /\ step > 0

\* C3: when train_dm has returned, the result has the single key DynModelLoss
\* and its list has epoch * step elements (38 in the end-to-end example, with
\* 19 steps per epoch); there is no result before the return.
C3_ResultLength ==
    /\ pc # "done" => result = NoDict
    /\ pc = "done" =>
          /\ DOMAIN result = {"DynModelLoss"}
          /\ Len(result["DynModelLoss"]) = epoch * step
          /\ ExampleRun => (step = 19 /\ Len(result["DynModelLoss"]) = 38)

\* The end-to-end example has returned its 38 losses.
C3_Witness ==
    /\ pc = "done"
    /\ ExampleRun
    /\ Len(result["DynModelLoss"]) = 38

\* C4: with one sub-batch size 0, the batch handed to update_dm is the other
\* source's batch, field for field (obs, acs, next_obs, rews).
C4_PassThrough ==
    pc = "update_dm" =>
        /\ batch_size_rl = 0 => batch = rand_batch
        /\ batch_size_rand = 0 => batch = rl_batch

\* C5: with both sub-batch sizes positive, the merged batch has the fields obs,
\* acs and next_obs, each as long as the two source batches together: the
\* random source's samples in their order, then the on-policy samples in theirs.
C5_Concat ==
    (pc = "update_dm" /\ batch_size_rl > 0 /\ batch_size_rand > 0) =>
        /\ DOMAIN batch = {"obs", "acs", "next_obs"}
        /\ \A f \in DOMAIN batch :
              LET out == batch[f].rows
                  a   == rand_batch[f].rows
                  b   == rl_batch[f].rows
              IN  /\ Len(out) = Len(a) + Len(b)
                  /\ \A i \in 1..Len(a) : out[i] = a[i]
                  /\ \A i \in 1..Len(b) : out[Len(a) + i] = b[i]

\* Two non-empty batches have been merged.
C5_Witness ==
    /\ pc = "update_dm"
    /\ batch_size_rl > 0
    /\ batch_size_rand > 0
    /\ Len(batch["obs"].rows) = batch_size

\* C6: a call of update_dm computes the loss, zeroes the gradients,
\* backpropagates, steps the optimizer once and returns, in this order; the
\* gradient applied is that of this loss alone, each completed call has taken
\* exactly one optimizer step, and the value returned is the loss computed
\* with the parameters of before the step.
C6_UpdateOrder ==
    /\ pc = "zero_grad" => upd_trace = <<"loss">>
    /\ pc = "backward" => (upd_trace = <<"loss", "zero_grad">> /\ optim_dm.grad = "zero")
    /\ pc = "optim_step" =>
          /\ upd_trace = <<"loss", "zero_grad", "backward">>
          /\ optim_dm.grad = "fresh"
          /\ upd_loss.theta = dyn_model
          /\ optim_dm.steps = n_calls - 1
    /\ pc = "upd_return" =>
          /\ upd_trace = <<"loss", "zero_grad", "backward", "step">>
          /\ upd_loss.theta = dyn_model - 1
          /\ optim_dm.steps = n_calls
    /\ pc = "append" =>
          /\ upd_trace = <<"loss", "zero_grad", "backward", "step", "return">>
          /\ dm_loss.theta = dyn_model - 1
          /\ dm_loss.n = Len(batch["obs"].rows)
          /\ optim_dm.steps = n_calls
          /\ dyn_model = n_calls

\* The second call of update_dm has returned.
C6_Witness ==
    /\ pc = "append"
    /\ n_calls = 2
    /\ dm_loss.theta = 1

\* C7: a failure ends the run: when an exception is raised train_dm is left
\* without a result, and from then on no batch is drawn, update_dm is not
\* called, the optimizer takes no step and nothing is returned.
C7_Abort ==
    [][ /\ error' # "none" => (pc' = "raised" /\ result' = NoDict)
        /\ error # "none" => UNCHANGED vars ]_vars

\* A step has failed after an earlier step was completed.
C7_Witness ==
    /\ pc = "raised"
    /\ error = "RuntimeError"
    /\ Len(dm_losses) >= 1
    /\ result = NoDict

\* C8: with both sub-batch sizes zero, train_dm raises ZeroDivisionError at the
\* step count: random_batch and update_dm have not been called, the model and
\* the optimizer are as they were and no loss is recorded.
C8_ZeroBatch ==
    /\ (pc \notin {"start", "steps"} /\ batch_size_rl = 0 /\ batch_size_rand = 0) =>
          /\ pc = "raised"
          /\ error = "ZeroDivisionError"
          /\ rb_calls = <<>>
          /\ n_pairs = 0
          /\ n_calls = 0
          /\ dyn_model = 0
          /\ optim_dm = [grad |-> "stale", steps |-> 0]
          /\ dm_losses = <<>>
          /\ result = NoDict
    /\ (pc # "start" /\ batch_size = 0) => (batch_size_rl = 0 /\ batch_size_rand = 0)

\* batch_size 0 has raised the division by zero.
C8_Witness ==
    /\ pc = "raised"
    /\ error = "ZeroDivisionError"
    /\ batch_size = 0
    /\ batch_size_rl = 0
    /\ batch_size_rand = 0

\* C9 (as amended): at every turn of the loop (and at the return) update_dm
\* has been called once per pair drawn and the list holds one loss per pair; a
\* pair being processed is the only one not yet in the list; the k-th element
\* is the value the k-th call of update_dm returned, computed after k - 1
\* optimizer steps; and the optimizer has taken as many steps as the list is
\* long, except from optim_dm.step() of line 19 until the append of line 84,
\* where it has taken exactly one more.
C9_LossHistory ==
    /\ pc \in {"zip", "epoch", "return", "done"} =>
          (n_calls = n_pairs /\ Len(dm_losses) = n_pairs)
    /\ pc \in {"merge", "update_dm", "zero_grad", "backward", "optim_step", "upd_return", "append"} =>
          Len(dm_losses) = n_pairs - 1
    /\ Len(dm_losses) <= Len(upd_log)
    /\ \A k \in 1..Len(dm_losses) : (dm_losses[k] = upd_log[k] /\ dm_losses[k].theta = k - 1)
    /\ optim_dm.steps = Len(upd_log) + (IF pc = "upd_return" THEN 1 ELSE 0)
    /\ optim_dm.steps = Len(dm_losses) + (IF pc \in {"upd_return", "append"} THEN 1 ELSE 0)
    /\ pc = "done" => result["DynModelLoss"] = dm_losses

\* The loop is in its second epoch with three losses in the list.
C9_Witness ==
    /\ pc = "zip"
    /\ e = 1
    /\ Len(dm_losses) = 3
    /\ optim_dm.steps = 3

\* C9 (as stated): update_dm is called once per pair drawn, the k-th element
\* of the list is the value the k-th call returned, and the number of optimizer
\* steps taken equals the current length of the list in every state.
C9_StepsAlwaysEqualLength ==
    /\ pc \in {"zip", "epoch", "return", "done"} =>
          (n_calls = n_pairs /\ Len(dm_losses) = n_pairs)
    /\ \A k \in 1..Len(dm_losses) : (dm_losses[k] = upd_log[k] /\ dm_losses[k].theta = k - 1)
    /\ optim_dm.steps = Len(dm_losses)

\* C10: the batch handed to update_dm holds obs, acs and the target field.
C10_TargetInBatch ==
    pc = "update_dm" => {"obs", "acs", target} \subseteq DOMAIN batch

====
